---- MODULE Spec2Model ----
(***************************************************************************)
(* Model of the todo persistence and ordering engine of ai_todo_list:      *)
(* the three store implementations (SimpleDatabase, SQLiteDatabase,        *)
(* Database), the identity allocator, the priority/due-date ordering of    *)
(* GetAllTodos, and the HTTP / tool layers that call into the store.       *)
(***************************************************************************)
EXTENDS Integers, Sequences, FiniteSets, TLC

VARIABLES
    impl,        \* which store implementation is behind the handlers
    todos,       \* SimpleDatabase.todos, or the rows of the todos table in rowid order
    nextID,      \* SimpleDatabase.nextID / SQLiteDatabase.nextID
    autoinc,     \* sqlite_sequence of the AUTOINCREMENT todos table (Database)
    userProfile, \* SimpleDatabase.userProfile / the user_profile row
    clock,       \* what time.Now() returns
    ret,         \* what the last completed call returned
    assigned,    \* the ids handed out by successful CreateTodo calls, in order
    initAt,      \* Len(assigned) when the store was last (re)initialised
    initMax,     \* largest id in the persisted collection at that initialisation
    deleted,     \* the ids whose record a DeleteTodo removed and no import stored again
    pc,          \* position of each concurrent caller
    loc,         \* locals of each concurrent caller
    mutex,       \* SimpleDatabase.mutex: the writer holding it and the readers
    client       \* the MCPClient of the web page: socket, requests, connect() promise

vars == <<impl, todos, nextID, autoinc, userProfile, clock, ret, assigned,
          initAt, initMax, deleted, pc, loc, mutex, client>>

----------------------------------------------------------------------------
(* Bounds *)

MaxCreates == 2
MaxTodos == 1
MaxClock == 2
MaxSortLen == 3
MaxOptLen == 11
MaxOptShort == 2
MaxRequests == 3

----------------------------------------------------------------------------
(* Data model *)

\* a nil *time.Time
NoDue == -1

\* the zero time.Time
ZeroTime == 0

\* the zero value of Todo
Todo ==
    [id |-> 0, title |-> "", description |-> "", priority |-> "", status |-> "",
     createdDate |-> ZeroTime, dueDate |-> NoDue, lastUpdated |-> ZeroTime,
     estimatedDuration |-> "", category |-> ""]

\* a nil *UserProfile / no row in user_profile
NoProfile == [name |-> "", timezone |-> "", set |-> FALSE]

UserProfile(n, tz) == [name |-> n, timezone |-> tz, set |-> TRUE]

IDs(ts) == {ts[i].id : i \in DOMAIN ts}

\* index of the first element whose id is id, 0 when there is none
\* (the `for i, todo := range d.todos { if todo.ID == id` loops)
IndexOf(ts, id) ==
    IF \E i \in DOMAIN ts : ts[i].id = id
    THEN CHOOSE i \in DOMAIN ts : ts[i].id = id /\ \A k \in 1..(i-1) : ts[k].id # id
    ELSE 0

RECURSIVE MaxIDFrom(_, _, _)
\* maxID := 0; for _, todo := range d.todos { if todo.ID > maxID { maxID = todo.ID } }
MaxIDFrom(ts, k, maxID) ==
    IF k > Len(ts) THEN maxID
    ELSE MaxIDFrom(ts, k + 1, IF ts[k].id > maxID THEN ts[k].id ELSE maxID)

MaxID(ts) == MaxIDFrom(ts, 1, 0)

\* the removal that keeps only the items before the one removed
Remove_truncate(ts, i) == SubSeq(ts, 1, i - 1)

Remove(ts, i) == SubSeq(ts, 1, i - 1) \o SubSeq(ts, i + 1, Len(ts))

\* result of a store call: the new store state, the record behind the
\* *Todo argument after the call, and the error
Result(ts, nid, ai, todo, err) ==
    [todos |-> ts, nextID |-> nid, autoinc |-> ai, todo |-> todo, err |-> err]

----------------------------------------------------------------------------
(* SimpleDatabase: in-memory slice guarded by a RWMutex *)

\* CreateTodo numbering the new item by the length of the slice
CreateTodo_idFromLen(ts, nid, ai, t, now1, now2) ==
    LET todo == [t EXCEPT !.id = Len(ts) + 1, !.createdDate = now1, !.lastUpdated = now2]
    IN Result(Append(ts, todo), nid + 1, ai, todo, "ok")

\* CreateTodo appending the record before it stamps LastUpdated
CreateTodo_appendBeforeStamp(ts, nid, ai, t, now1, now2) ==
    LET stored == [t EXCEPT !.id = nid, !.createdDate = now1]
        todo == [stored EXCEPT !.lastUpdated = now2]
    IN Result(Append(ts, stored), nid + 1, ai, todo, "ok")

SimpleDatabase_CreateTodo(ts, nid, ai, t, now1, now2) ==
    LET todo == [t EXCEPT !.id = nid, !.createdDate = now1, !.lastUpdated = now2]
    IN Result(Append(ts, todo), nid + 1, ai, todo, "ok")

\* UpdateTodo storing the caller's record without restoring createdDate
UpdateTodo_callerCreatedDate(ts, nid, ai, t, now) ==
    LET i == IndexOf(ts, t.id) IN
    IF i = 0 THEN Result(ts, nid, ai, t, "notfound")
    ELSE LET todo == [t EXCEPT !.lastUpdated = now]
         IN Result([ts EXCEPT ![i] = todo], nid, ai, todo, "ok")

SimpleDatabase_UpdateTodo(ts, nid, ai, t, now) ==
    LET i == IndexOf(ts, t.id) IN
    IF i = 0 THEN Result(ts, nid, ai, t, "notfound")
    ELSE LET todo == [t EXCEPT !.createdDate = ts[i].createdDate, !.lastUpdated = now]
         IN Result([ts EXCEPT ![i] = todo], nid, ai, todo, "ok")

SimpleDatabase_DeleteTodo(ts, nid, ai, id) ==
    LET i == IndexOf(ts, id) IN
    IF i = 0 THEN Result(ts, nid, ai, Todo, "notfound")
    ELSE Result(Remove(ts, i), nid, ai, Todo, "ok")

SimpleDatabase_GetTodoByID(ts, id) ==
    LET i == IndexOf(ts, id) IN
    IF i = 0 THEN [todo |-> Todo, err |-> "notfound"]
    ELSE [todo |-> ts[i], err |-> "ok"]

----------------------------------------------------------------------------
(* SQLiteDatabase: todos table with id INTEGER PRIMARY KEY, nextID in memory *)

RECURSIVE InsertRow(_, _)
\* rows are kept in rowid order, which is the order a scan returns them in
InsertRow(ts, row) ==
    IF ts = <<>> THEN <<row>>
    ELSE IF row.id < Head(ts).id THEN <<row>> \o ts
    ELSE <<Head(ts)>> \o InsertRow(Tail(ts), row)

\* updateNextID counting the rows instead of taking the largest id
updateNextID_count(ts) == Len(ts) + 1

\* SELECT COALESCE(MAX(id), 0) FROM todos; d.nextID = maxID + 1
updateNextID(ts) == MaxID(ts) + 1

\* the defaults CreateTodo fills in
WithDefaults(t) ==
    [t EXCEPT !.status = IF t.status = "" THEN "pending" ELSE t.status,
              !.priority = IF t.priority = "" THEN "medium" ELSE t.priority,
              !.category = IF t.category = "" THEN "personal" ELSE t.category]

SQLiteDatabase_CreateTodo(ts, nid, ai, t, now1, now2) ==
    LET todo == WithDefaults([t EXCEPT !.id = nid, !.createdDate = now1,
                                       !.lastUpdated = now2])
    IN IF nid \in IDs(ts)
       THEN Result(ts, nid, ai, todo, "storage")   \* PRIMARY KEY constraint
       ELSE Result(InsertRow(ts, todo), nid + 1, ai, todo, "ok")

SQLiteDatabase_GetTodoByID(ts, id) ==
    LET i == IndexOf(ts, id) IN
    IF i = 0 THEN [todo |-> Todo, err |-> "notfound"]
    ELSE [todo |-> ts[i], err |-> "ok"]

SQLiteDatabase_UpdateTodo(ts, nid, ai, t, now) ==
    LET existing == SQLiteDatabase_GetTodoByID(ts, t.id) IN
    IF existing.err # "ok" THEN Result(ts, nid, ai, t, existing.err)
    ELSE LET todo == [t EXCEPT !.createdDate = existing.todo.createdDate,
                               !.lastUpdated = now]
             i == IndexOf(ts, t.id)
             \* UPDATE ... WHERE id = ? leaves created_date as it is in the row
             row == [todo EXCEPT !.createdDate = ts[i].createdDate]
         IN Result([ts EXCEPT ![i] = row], nid, ai, todo, "ok")

SQLiteDatabase_DeleteTodo(ts, nid, ai, id) ==
    LET i == IndexOf(ts, id) IN
    IF i = 0 THEN Result(ts, nid, ai, Todo, "notfound")   \* affected == 0
    ELSE Result(Remove(ts, i), nid, ai, Todo, "ok")

----------------------------------------------------------------------------
(* Database: todos table with id INTEGER PRIMARY KEY AUTOINCREMENT *)

Database_CreateTodo(ts, nid, ai, t, now1, now2) ==
    LET id == (IF MaxID(ts) > ai THEN MaxID(ts) ELSE ai) + 1
        todo == [t EXCEPT !.id = id]
    IN Result(InsertRow(ts, todo), nid, id, todo, "ok")

Database_UpdateTodo(ts, nid, ai, t, now) ==
    LET i == IndexOf(ts, t.id) IN
    IF i = 0 THEN Result(ts, nid, ai, t, "ok")   \* no row matches, Exec reports no error
    ELSE LET row == [t EXCEPT !.createdDate = ts[i].createdDate]
         IN Result([ts EXCEPT ![i] = row], nid, ai, t, "ok")

Database_DeleteTodo(ts, nid, ai, id) ==
    LET i == IndexOf(ts, id) IN
    IF i = 0 THEN Result(ts, nid, ai, Todo, "ok")
    ELSE Result(Remove(ts, i), nid, ai, Todo, "ok")

Database_GetTodoByID(ts, id) ==
    LET i == IndexOf(ts, id) IN
    IF i = 0 THEN [todo |-> Todo, err |-> "notfound"]   \* sql.ErrNoRows
    ELSE [todo |-> ts[i], err |-> "ok"]

----------------------------------------------------------------------------
(* Ordering of GetAllTodos *)

\* priorityOrder := map[string]int{...}; a missing key reads as 0
priorityOrder(p) ==
    CASE p = "urgent" -> 1
      [] p = "high" -> 2
      [] p = "medium" -> 3
      [] p = "low" -> 4
      [] OTHER -> 0

\* the exchange condition without the due-date tie-break
After_priorityOnly(a, b) ==
    priorityOrder(a.priority) > priorityOrder(b.priority)

\* the exchange condition with an item without due date ordered after a dated one
After_undatedLast(a, b) ==
    LET pi == priorityOrder(a.priority)
        pj == priorityOrder(b.priority)
    IN pi > pj \/ (pi = pj /\ a.dueDate # NoDue /\ b.dueDate # NoDue
                   /\ a.dueDate > b.dueDate)
               \/ (pi = pj /\ a.dueDate = NoDue /\ b.dueDate # NoDue)

\* the condition under which the sort exchanges todos[i] and todos[j]
After(a, b) ==
    LET pi == priorityOrder(a.priority)
        pj == priorityOrder(b.priority)
    IN pi > pj \/ (pi = pj /\ a.dueDate # NoDue /\ b.dueDate # NoDue
                   /\ a.dueDate > b.dueDate)

RECURSIVE ExchangeSort_adjacent(_, _, _)
\* the sort comparing only neighbours, in a single pass
ExchangeSort_adjacent(s, i, j) ==
    IF i > Len(s) - 1 THEN s
    ELSE ExchangeSort_adjacent(IF After(s[i], s[i + 1])
                               THEN [s EXCEPT ![i] = s[i + 1], ![i + 1] = s[i]]
                               ELSE s, i + 1, i + 2)

RECURSIVE ExchangeSort_overwrite(_, _, _)
\* the sort assigning todos[i] = todos[j] without the exchange
ExchangeSort_overwrite(s, i, j) ==
    IF i > Len(s) - 1 THEN s
    ELSE IF j > Len(s) THEN ExchangeSort_overwrite(s, i + 1, i + 2)
    ELSE ExchangeSort_overwrite(IF After(s[i], s[j])
                                THEN [s EXCEPT ![i] = s[j]]
                                ELSE s, i, j + 1)

RECURSIVE ExchangeSort(_, _, _)
\* for i := 0; i < len-1; i++ { for j := i+1; j < len; j++ { if ... swap } }
ExchangeSort(s, i, j) ==
    IF i > Len(s) - 1 THEN s
    ELSE IF j > Len(s) THEN ExchangeSort(s, i + 1, i + 2)
    ELSE ExchangeSort(IF After(s[i], s[j])
                      THEN [s EXCEPT ![i] = s[j], ![j] = s[i]]
                      ELSE s, i, j + 1)

SimpleDatabase_GetAllTodos(ts) == ExchangeSort(ts, 1, 2)

SQLiteDatabase_GetAllTodos(ts) == ExchangeSort(ts, 1, 2)

\* copy(todosCopy, d.todos) copies each Todo with its DueDate pointer;
\* rows.Scan fills a new sql.NullTime for every row
SharedDueDates(im, ts) ==
    IF im = "simple" THEN {ts[i].id : i \in {k \in DOMAIN ts : ts[k].dueDate # NoDue}}
    ELSE {}

----------------------------------------------------------------------------
(* Dispatch on the implementation behind the store interface *)

Impls == {"simple", "sqlite", "database"}

Store_CreateTodo(im, ts, nid, ai, t, now1, now2) ==
    CASE im = "simple" -> SimpleDatabase_CreateTodo(ts, nid, ai, t, now1, now2)
      [] im = "sqlite" -> SQLiteDatabase_CreateTodo(ts, nid, ai, t, now1, now2)
      [] OTHER -> Database_CreateTodo(ts, nid, ai, t, now1, now2)

Store_UpdateTodo(im, ts, nid, ai, t, now) ==
    CASE im = "simple" -> SimpleDatabase_UpdateTodo(ts, nid, ai, t, now)
      [] im = "sqlite" -> SQLiteDatabase_UpdateTodo(ts, nid, ai, t, now)
      [] OTHER -> Database_UpdateTodo(ts, nid, ai, t, now)

Store_DeleteTodo(im, ts, nid, ai, id) ==
    CASE im = "simple" -> SimpleDatabase_DeleteTodo(ts, nid, ai, id)
      [] im = "sqlite" -> SQLiteDatabase_DeleteTodo(ts, nid, ai, id)
      [] OTHER -> Database_DeleteTodo(ts, nid, ai, id)

Store_GetTodoByID(im, ts, id) ==
    CASE im = "simple" -> SimpleDatabase_GetTodoByID(ts, id)
      [] im = "sqlite" -> SQLiteDatabase_GetTodoByID(ts, id)
      [] OTHER -> Database_GetTodoByID(ts, id)

----------------------------------------------------------------------------
(* Inputs *)

Procs == {1, 2}

\* the record of a request that carries only a title: {title: "x"}
TitleOnly == [Todo EXCEPT !.title = "x"]

\* a record with every field filled in by the caller, id and timestamps included
Filled ==
    [Todo EXCEPT !.id = 7, !.title = "y", !.priority = "high",
                 !.status = "completed", !.category = "work", !.dueDate = 2,
                 !.createdDate = MaxClock + 5, !.lastUpdated = ZeroTime]

CreateInputs == {TitleOnly, Filled}

\* the ids a caller may name: those stored, and one that is not
CallerIDs == IDs(todos) \cup {MaxID(todos) + 1}

\* the record a caller passes to UpdateTodo
UpdateInputs ==
    { [Todo EXCEPT !.id = i, !.title = "z", !.priority = "low",
                   !.createdDate = MaxClock + 5, !.lastUpdated = ZeroTime]
      : i \in CallerIDs }

\* a file that cannot be read or parsed
BadFile == [ok |-> FALSE, profile |-> NoProfile, todos |-> <<>>]

\* the parsed content of the files given to ImportFromJSON
ImportFiles ==
    { BadFile,
      [ok |-> TRUE, profile |-> NoProfile, todos |-> <<>>],
      [ok |-> TRUE, profile |-> UserProfile("u", "UTC"),
       todos |-> << [Todo EXCEPT !.id = 1, !.title = "a", !.priority = "high",
                                 !.status = "pending", !.category = "work",
                                 !.createdDate = 1, !.lastUpdated = 1],
                    [Todo EXCEPT !.id = 3, !.title = "b", !.priority = "medium",
                                 !.status = "pending", !.category = "work",
                                 !.createdDate = 1, !.lastUpdated = 2, !.dueDate = 2],
                    [Todo EXCEPT !.id = 7, !.title = "c", !.priority = "urgent",
                                 !.status = "completed", !.category = "personal",
                                 !.createdDate = 2, !.lastUpdated = 1] >>] }

----------------------------------------------------------------------------
(* State machine of one store and its callers *)

\* what a call returned; shared holds the ids of the items of list whose DueDate
\* pointer is the one the stored item holds, req the arguments of a tool call
Ret(op, err, id, todo, list) ==
    [op |-> op, err |-> err, id |-> id, todo |-> todo, list |-> list, shared |-> {},
     profile |-> NoProfile, req |-> <<>>]

\* the locals of a caller that is not inside a call
NoCall == [op |-> "", todo |-> Todo, tmp |-> 0, args |-> <<>>]

\* MCPClient after its constructor: no socket, no request sent, connect()
\* not called; onopen is the position of the async onopen handler
NewClient ==
    [ws |-> "none", connected |-> FALSE, requestId |-> 1, pendingRequests |-> {},
     tools |-> "none", promise |-> "none", onopen |-> "idle"]

Idle == \A p \in Procs : pc[p] = "idle"

Init ==
    /\ impl \in Impls
    /\ todos = <<>>
    /\ nextID = 1
    /\ autoinc = 0
    /\ userProfile = NoProfile
    /\ clock = 1
    /\ ret = Ret("new", "ok", 0, Todo, <<>>)
    /\ assigned = <<>>
    /\ initAt = 0
    /\ initMax = 0
    /\ deleted = {}
    /\ pc = [p \in Procs |-> "idle"]
    /\ loc = [p \in Procs |-> NoCall]
    /\ mutex = [writer |-> 0, readers |-> {}]
    /\ client = NewClient

\* time passes
Tick ==
    /\ clock < MaxClock
    /\ clock' = clock + 1
    /\ UNCHANGED <<client, impl, todos, nextID, autoinc, userProfile, ret, assigned,
                   initAt, initMax, deleted, pc, loc, mutex>>

\* the time between the two time.Now() calls of one CreateTodo
Elapsed == {0} \cup (IF clock < MaxClock THEN {1} ELSE {})

CreateTodo(t, d) ==
    /\ Idle
    /\ Len(assigned) < MaxCreates
    /\ LET r == Store_CreateTodo(impl, todos, nextID, autoinc, t, clock, clock + d) IN
         /\ todos' = r.todos
         /\ nextID' = r.nextID
         /\ autoinc' = r.autoinc
         /\ clock' = clock + d
         /\ ret' = Ret("CreateTodo", r.err, r.todo.id, r.todo, <<>>)
         /\ assigned' = IF r.err = "ok" THEN Append(assigned, r.todo.id) ELSE assigned
    /\ UNCHANGED <<client, impl, userProfile, initAt, initMax, deleted, pc, loc, mutex>>

UpdateTodo(t) ==
    /\ Idle
    /\ LET r == Store_UpdateTodo(impl, todos, nextID, autoinc, t, clock) IN
         /\ todos' = r.todos
         /\ nextID' = r.nextID
         /\ autoinc' = r.autoinc
         /\ ret' = Ret("UpdateTodo", r.err, t.id, r.todo, <<>>)
    /\ UNCHANGED <<client, impl, userProfile, clock, assigned, initAt, initMax, deleted, pc, loc, mutex>>

\* the record of the removals: a DeleteTodo that returned nil for a stored id
Removed(id, err) ==
    IF err = "ok" /\ id \in IDs(todos) THEN deleted \cup {id} ELSE deleted

DeleteTodo(id) ==
    /\ Idle
    /\ LET r == Store_DeleteTodo(impl, todos, nextID, autoinc, id) IN
         /\ todos' = r.todos
         /\ nextID' = r.nextID
         /\ autoinc' = r.autoinc
         /\ ret' = Ret("DeleteTodo", r.err, id, Todo, <<>>)
         /\ deleted' = Removed(id, r.err)
    /\ UNCHANGED <<client, impl, userProfile, clock, assigned, initAt, initMax, pc, loc, mutex>>

SimpleDatabase_ImportFromJSON(f) ==
    /\ Idle
    /\ impl = "simple"
    /\ IF f.ok
       THEN /\ userProfile' = [f.profile EXCEPT !.set = TRUE]
            /\ todos' = f.todos
            /\ nextID' = MaxID(f.todos) + 1
            /\ initAt' = Len(assigned)
            /\ initMax' = MaxID(f.todos)
            /\ deleted' = deleted \ IDs(f.todos)
            /\ ret' = Ret("ImportFromJSON", "ok", 0, Todo, <<>>)
       ELSE /\ ret' = Ret("ImportFromJSON", "storage", 0, Todo, <<>>)
            /\ UNCHANGED <<userProfile, todos, nextID, initAt, initMax, deleted>>
    /\ UNCHANGED <<client, impl, autoinc, clock, assigned, pc, loc, mutex>>

RECURSIVE InsertOrReplaceAll(_, _)
\* INSERT OR REPLACE INTO todos ... for each todo of the file
InsertOrReplaceAll(ts, new) ==
    IF new = <<>> THEN ts
    ELSE LET row == Head(new)
             i == IndexOf(ts, row.id)
         IN InsertOrReplaceAll(IF i = 0 THEN InsertRow(ts, row)
                               ELSE [ts EXCEPT ![i] = row], Tail(new))

SQLiteDatabase_ImportFromJSON(f) ==
    /\ Idle
    /\ impl = "sqlite"
    /\ IF f.ok
       THEN /\ userProfile' = IF f.profile.name # ""
                              THEN [f.profile EXCEPT !.set = TRUE] ELSE userProfile
            /\ todos' = InsertOrReplaceAll(todos, f.todos)
            /\ nextID' = updateNextID(todos')
            /\ initAt' = Len(assigned)
            /\ initMax' = MaxID(todos')
            /\ deleted' = deleted \ IDs(f.todos)
            /\ ret' = Ret("ImportFromJSON", "ok", 0, Todo, <<>>)
       ELSE /\ ret' = Ret("ImportFromJSON", "storage", 0, Todo, <<>>)
            /\ UNCHANGED <<userProfile, todos, nextID, initAt, initMax, deleted>>
    /\ UNCHANGED <<client, impl, autoinc, clock, assigned, pc, loc, mutex>>

\* the process is restarted on the same todos.db
NewSQLiteDatabase ==
    /\ Idle
    /\ impl = "sqlite"
    /\ nextID' = updateNextID(todos)
    /\ initAt' = Len(assigned)
    /\ initMax' = MaxID(todos)
    /\ ret' = Ret("new", "ok", 0, Todo, <<>>)
    /\ UNCHANGED <<client, impl, todos, autoinc, userProfile, clock, assigned, pc, loc, mutex, deleted>>

(* The store driven through its own interface, one call at a time: the     *)
(* identity allocator under create, update, delete, import and restart.    *)
Next ==
    \/ CreateTodo(TitleOnly, 0)
    \/ \E t \in UpdateInputs : UpdateTodo(t)
    \/ \E id \in CallerIDs : DeleteTodo(id)
    \/ \E f \in ImportFiles : SimpleDatabase_ImportFromJSON(f)
    \/ \E f \in ImportFiles : SQLiteDatabase_ImportFromJSON(f)
    \/ NewSQLiteDatabase

Spec == Init /\ [][Next]_vars

----------------------------------------------------------------------------
(* HTTP handlers (main.go on SimpleDatabase, api/api.go on SQLiteDatabase)  *)
(* and the update_todo tool                                                 *)

Wired == impl \in {"simple", "sqlite"}

\* the defaults the createTodo handler fills in before it calls the store
createTodo_defaults(t) ==
    [t EXCEPT !.status = IF t.status = "" THEN "pending" ELSE t.status,
              !.priority = IF t.priority = "" THEN "medium" ELSE t.priority,
              !.category = IF t.category = "" THEN "personal" ELSE t.category]

\* POST /api/todos
createTodo(body, d) ==
    /\ Idle /\ Wired
    /\ Len(assigned) < MaxCreates
    /\ LET todo == [createTodo_defaults(body) EXCEPT !.createdDate = clock,
                                                     !.lastUpdated = clock]
           r == Store_CreateTodo(impl, todos, nextID, autoinc, todo, clock, clock + d)
       IN /\ todos' = r.todos
          /\ nextID' = r.nextID
          /\ autoinc' = r.autoinc
          /\ clock' = clock + d
          /\ ret' = Ret("createTodo", r.err, r.todo.id, r.todo, <<>>)
          /\ assigned' = IF r.err = "ok" THEN Append(assigned, r.todo.id) ELSE assigned
    /\ UNCHANGED <<client, impl, userProfile, initAt, initMax, deleted, pc, loc, mutex>>

\* PUT /api/todos/{id}
updateTodo(id, body) ==
    /\ Idle /\ Wired
    /\ LET g == Store_GetTodoByID(impl, todos, id)
           updatedTodo == [body EXCEPT !.id = id, !.createdDate = g.todo.createdDate,
                                       !.lastUpdated = clock]
           r == Store_UpdateTodo(impl, todos, nextID, autoinc, updatedTodo, clock)
       IN IF g.err # "ok"
          THEN /\ ret' = Ret("updateTodo", "notfound", id, Todo, <<>>)
               /\ UNCHANGED <<todos, nextID, autoinc>>
          ELSE /\ todos' = r.todos
               /\ nextID' = r.nextID
               /\ autoinc' = r.autoinc
               /\ ret' = Ret("updateTodo", r.err, id, r.todo, <<>>)
    /\ UNCHANGED <<client, impl, userProfile, clock, assigned, initAt, initMax, deleted, pc, loc, mutex>>

\* DELETE /api/todos/{id}: any error of DeleteTodo is answered 404
deleteTodo(id) ==
    /\ Idle /\ Wired
    /\ LET r == Store_DeleteTodo(impl, todos, nextID, autoinc, id) IN
         /\ todos' = r.todos
         /\ nextID' = r.nextID
         /\ autoinc' = r.autoinc
         /\ ret' = Ret("deleteTodo", IF r.err # "ok" THEN "notfound" ELSE "ok",
                       id, Todo, <<>>)
         /\ deleted' = Removed(id, r.err)
    /\ UNCHANGED <<client, impl, userProfile, clock, assigned, initAt, initMax, pc, loc, mutex>>

\* args[key].(string): the value and whether the key is present
HasArg(args, key) == key \in DOMAIN args

\* getStringArg / req.GetString(key, ""): "" when the key is absent
getStringArg(args, key) == IF key \in DOMAIN args THEN args[key] ELSE ""

\* time.Parse(time.RFC3339, s): the texts "T1", "T2", ... are well formed
ParseRFC3339(s) ==
    IF \E n \in 1..MaxClock : s = "T" \o ToString(n)
    THEN [ok |-> TRUE, time |-> CHOOSE n \in 1..MaxClock : s = "T" \o ToString(n)]
    ELSE [ok |-> FALSE, time |-> ZeroTime]

\* the fields executeUpdateTodo overwrites: only those whose argument is present
executeUpdateTodo_merge(todo, args) ==
    LET due == ParseRFC3339(getStringArg(args, "due_date")) IN
    [todo EXCEPT
       !.title = IF HasArg(args, "title") THEN args["title"] ELSE @,
       !.description = IF HasArg(args, "description") THEN args["description"] ELSE @,
       !.priority = IF HasArg(args, "priority") THEN args["priority"] ELSE @,
       !.status = IF HasArg(args, "status") THEN args["status"] ELSE @,
       !.category = IF HasArg(args, "category") THEN args["category"] ELSE @,
       !.estimatedDuration = IF HasArg(args, "estimated_duration")
                             THEN args["estimated_duration"] ELSE @,
       !.dueDate = IF HasArg(args, "due_date") /\ args["due_date"] # "" /\ due.ok
                   THEN due.time ELSE @]

\* the update_todo tool of the MCP server on SimpleDatabase
executeUpdateTodo(id, args) ==
    /\ Idle /\ impl = "simple"
    /\ LET g == Store_GetTodoByID(impl, todos, id)
           todo == [executeUpdateTodo_merge(g.todo, args) EXCEPT !.lastUpdated = clock]
           r == Store_UpdateTodo(impl, todos, nextID, autoinc, todo, clock)
       IN IF g.err # "ok"
          THEN /\ ret' = [Ret("update_todo", "notfound", id, Todo, <<>>) EXCEPT !.req = args]
               /\ UNCHANGED <<todos, nextID, autoinc>>
          ELSE /\ todos' = r.todos
               /\ nextID' = r.nextID
               /\ autoinc' = r.autoinc
               /\ ret' = [Ret("update_todo", r.err, id, r.todo, <<>>) EXCEPT !.req = args]
    /\ UNCHANGED <<client, impl, userProfile, clock, assigned, initAt, initMax, deleted, pc, loc, mutex>>

\* the fields the update_todo tool of mcp/mcp_server.go overwrites: all four,
\* with "" for an absent argument
update_todo_merge(todo, args) ==
    [todo EXCEPT !.title = getStringArg(args, "title"),
                 !.description = getStringArg(args, "description"),
                 !.priority = getStringArg(args, "priority"),
                 !.status = getStringArg(args, "status")]

\* the update_todo tool registered on SQLiteDatabase
update_todo(id, args) ==
    /\ Idle /\ impl = "sqlite"
    /\ LET g == Store_GetTodoByID(impl, todos, id)
           todo == [update_todo_merge(g.todo, args) EXCEPT !.lastUpdated = clock]
           r == Store_UpdateTodo(impl, todos, nextID, autoinc, todo, clock)
       IN IF g.err # "ok"
          THEN /\ ret' = [Ret("update_todo", "notfound", id, Todo, <<>>) EXCEPT !.req = args]
               /\ UNCHANGED <<todos, nextID, autoinc>>
          ELSE /\ todos' = r.todos
               /\ nextID' = r.nextID
               /\ autoinc' = r.autoinc
               /\ ret' = [Ret("update_todo", r.err, id, r.todo, <<>>) EXCEPT !.req = args]
    /\ UNCHANGED <<client, impl, userProfile, clock, assigned, initAt, initMax, deleted, pc, loc, mutex>>

\* the argument maps of the update_todo calls
UpdateArgs ==
    { [k \in {"title"} |-> "w"],
      [k \in {"status", "due_date"} |-> IF k = "status" THEN "completed" ELSE "T1"] }

(* The store behind its callers, with time passing: direct calls, the HTTP  *)
(* handlers and the update_todo tool, one call at a time.                   *)
NextApi ==
    \/ Tick
    \/ \E t \in CreateInputs, d \in Elapsed : Len(todos) < MaxTodos /\ CreateTodo(t, d)
    \/ \E d \in Elapsed : Len(todos) < MaxTodos /\ createTodo(TitleOnly, d)
    \/ \E t \in UpdateInputs : UpdateTodo(t)
    \/ \E t \in UpdateInputs : updateTodo(t.id, t)
    \/ \E id \in CallerIDs, args \in UpdateArgs : executeUpdateTodo(id, args)
    \/ \E id \in CallerIDs, args \in UpdateArgs : update_todo(id, args)
    \/ \E id \in CallerIDs : DeleteTodo(id)
    \/ \E id \in CallerIDs : deleteTodo(id)

SpecApi == Init /\ [][NextApi]_vars

----------------------------------------------------------------------------
(* The requests that create and update todos: POST and PUT /api/todos and   *)
(* the create_todo and update_todo tools of the two MCP servers             *)

\* the record create_todo builds from its arguments before it calls the
\* store: Status "pending", "medium" and "personal" for an empty priority
\* and category
ToolTodo(args) ==
    [Todo EXCEPT
       !.title = getStringArg(args, "title"),
       !.description = getStringArg(args, "description"),
       !.priority = IF getStringArg(args, "priority") = "" THEN "medium"
                    ELSE getStringArg(args, "priority"),
       !.category = IF getStringArg(args, "category") = "" THEN "personal"
                    ELSE getStringArg(args, "category"),
       !.status = "pending",
       !.createdDate = clock,
       !.lastUpdated = clock,
       !.estimatedDuration = getStringArg(args, "estimated_duration")]

\* the create_todo tool of the MCP server on SimpleDatabase
executeCreateTodo(args) ==
    /\ Idle /\ impl = "simple"
    /\ Len(assigned) < MaxCreates
    /\ IF ~HasArg(args, "title")
       THEN /\ ret' = [Ret("create_todo", "validation", 0, Todo, <<>>) EXCEPT !.req = args]
            /\ UNCHANGED <<todos, nextID, autoinc, assigned>>
       ELSE LET due == ParseRFC3339(getStringArg(args, "due_date"))
                todo == [ToolTodo(args) EXCEPT
                           !.dueDate = IF getStringArg(args, "due_date") # "" /\ due.ok
                                       THEN due.time ELSE @]
                r == Store_CreateTodo(impl, todos, nextID, autoinc, todo, clock, clock)
            IN /\ todos' = r.todos
               /\ nextID' = r.nextID
               /\ autoinc' = r.autoinc
               /\ ret' = [Ret("create_todo", r.err, r.todo.id, r.todo, <<>>)
                          EXCEPT !.req = args]
               /\ assigned' = IF r.err = "ok" THEN Append(assigned, r.todo.id)
                              ELSE assigned
    /\ UNCHANGED <<client, impl, userProfile, clock, initAt, initMax, deleted, pc, loc, mutex>>

\* the create_todo tool registered on SQLiteDatabase
create_todo(args) ==
    /\ Idle /\ impl = "sqlite"
    /\ Len(assigned) < MaxCreates
    /\ LET r == Store_CreateTodo(impl, todos, nextID, autoinc, ToolTodo(args), clock, clock)
       IN /\ todos' = r.todos
          /\ nextID' = r.nextID
          /\ autoinc' = r.autoinc
          /\ ret' = [Ret("create_todo", r.err, r.todo.id, r.todo, <<>>) EXCEPT !.req = args]
          /\ assigned' = IF r.err = "ok" THEN Append(assigned, r.todo.id) ELSE assigned
    /\ UNCHANGED <<client, impl, userProfile, clock, initAt, initMax, deleted, pc, loc, mutex>>

\* the argument maps of the create_todo calls: a title, no title, an empty
\* title, a well-formed and a malformed due_date
CreateArgs ==
    { [k \in {"title"} |-> "x"],
      <<>>,
      [k \in {"title"} |-> ""],
      [k \in {"title", "due_date"} |-> IF k = "title" THEN "x" ELSE "T1"],
      [k \in {"title", "due_date"} |-> IF k = "title" THEN "x" ELSE "tomorrow"] }

\* the argument maps of the update_todo calls, one with a malformed due_date
ToolUpdateArgs == UpdateArgs \cup { [k \in {"due_date"} |-> "tomorrow"] }

\* the bodies of POST and PUT /api/todos: {"title": "x"}, {} and a full record
RequestBodies == {TitleOnly, Todo, Filled}

NextTool ==
    \/ \E body \in RequestBodies : Len(todos) < MaxTodos /\ createTodo(body, 0)
    \/ \E args \in CreateArgs : Len(todos) < MaxTodos /\ executeCreateTodo(args)
    \/ \E args \in CreateArgs : Len(todos) < MaxTodos /\ create_todo(args)
    \/ \E id \in CallerIDs, body \in RequestBodies : updateTodo(id, body)
    \/ \E id \in CallerIDs, args \in ToolUpdateArgs : executeUpdateTodo(id, args)
    \/ \E id \in CallerIDs, args \in ToolUpdateArgs : update_todo(id, args)

\* the servers run on SimpleDatabase or on SQLiteDatabase
InitTool == Init /\ Wired

SpecTool == InitTool /\ [][NextTool]_vars

----------------------------------------------------------------------------
(* Concurrent callers: request goroutines calling one store at the same     *)
(* time. SimpleDatabase methods run between Lock and Unlock of its mutex;   *)
(* SQLiteDatabase has no lock, each SQL statement is atomic and the reads   *)
(* and writes of nextID interleave.                                         *)

\* d.mutex.Lock() at the head of CreateTodo, UpdateTodo, DeleteTodo
Lock(p, op, t) ==
    /\ impl = "simple"
    /\ pc[p] = "idle"
    /\ mutex.writer = 0 /\ mutex.readers = {}
    /\ op = "CreateTodo" => Len(assigned) + Cardinality({q \in Procs : loc[q].op = "CreateTodo"}) < MaxCreates
    /\ mutex' = [mutex EXCEPT !.writer = p]
    /\ pc' = [pc EXCEPT ![p] = "locked"]
    /\ loc' = [loc EXCEPT ![p] = [op |-> op, todo |-> t, tmp |-> 0, args |-> <<>>]]
    /\ UNCHANGED <<client, impl, todos, nextID, autoinc, userProfile, clock, ret, assigned,
                   initAt, initMax, deleted>>

\* the body of the method and the deferred Unlock
Locked(p) ==
    /\ impl = "simple"
    /\ pc[p] = "locked"
    /\ LET r == CASE loc[p].op = "CreateTodo" ->
                       SimpleDatabase_CreateTodo(todos, nextID, autoinc, loc[p].todo, clock, clock)
                  [] loc[p].op = "UpdateTodo" ->
                       SimpleDatabase_UpdateTodo(todos, nextID, autoinc, loc[p].todo, clock)
                  [] OTHER ->
                       SimpleDatabase_DeleteTodo(todos, nextID, autoinc, loc[p].todo.id)
       IN /\ todos' = r.todos
          /\ nextID' = r.nextID
          /\ ret' = Ret(loc[p].op, r.err, IF loc[p].op = "CreateTodo" THEN r.todo.id
                                          ELSE loc[p].todo.id, r.todo, <<>>)
          /\ assigned' = IF loc[p].op = "CreateTodo" /\ r.err = "ok"
                         THEN Append(assigned, r.todo.id) ELSE assigned
    /\ mutex' = [mutex EXCEPT !.writer = 0]
    /\ pc' = [pc EXCEPT ![p] = "idle"]
    /\ loc' = [loc EXCEPT ![p] = NoCall]
    /\ deleted' = IF loc[p].op = "DeleteTodo" THEN Removed(loc[p].todo.id, "ok") ELSE deleted
    /\ UNCHANGED <<client, impl, autoinc, userProfile, clock, initAt, initMax>>

\* SQLiteDatabase.CreateTodo: todo.ID = d.nextID, timestamps and defaults
SQLite_Create_ReadNextID(p, t) ==
    /\ impl = "sqlite"
    /\ pc[p] = "idle"
    /\ Len(assigned) + Cardinality({q \in Procs : loc[q].op = "CreateTodo"}) < MaxCreates
    /\ pc' = [pc EXCEPT ![p] = "insert"]
    /\ loc' = [loc EXCEPT ![p] =
                 [op |-> "CreateTodo",
                  todo |-> WithDefaults([t EXCEPT !.id = nextID, !.createdDate = clock,
                                                  !.lastUpdated = clock]),
                  tmp |-> 0, args |-> <<>>]]
    /\ UNCHANGED <<client, impl, todos, nextID, autoinc, userProfile, clock, ret, assigned,
                   initAt, initMax, deleted, mutex>>

\* the INSERT of CreateTodo with d.nextID++ ahead of the error check
SQLite_Create_Insert_incOnError(p) ==
    /\ impl = "sqlite"
    /\ pc[p] = "insert"
    /\ IF loc[p].todo.id \in IDs(todos)
       THEN \* PRIMARY KEY constraint: the error is returned after the increment
            /\ ret' = Ret("CreateTodo", "storage", loc[p].todo.id, loc[p].todo, <<>>)
            /\ pc' = [pc EXCEPT ![p] = "idle"]
            /\ loc' = [loc EXCEPT ![p] = NoCall]
            /\ nextID' = nextID + 1
            /\ UNCHANGED todos
       ELSE /\ todos' = InsertRow(todos, loc[p].todo)
            /\ pc' = [pc EXCEPT ![p] = "incLoad"]
            /\ UNCHANGED <<ret, loc, nextID>>
    /\ UNCHANGED <<client, impl, autoinc, userProfile, clock, assigned,
                   initAt, initMax, deleted, mutex>>

\* SQLiteDatabase.CreateTodo: d.db.Exec("INSERT INTO todos (id, ...")
SQLite_Create_Insert(p) ==
    /\ impl = "sqlite"
    /\ pc[p] = "insert"
    /\ IF loc[p].todo.id \in IDs(todos)
       THEN \* PRIMARY KEY constraint: return the error, nextID is left alone
            /\ ret' = Ret("CreateTodo", "storage", loc[p].todo.id, loc[p].todo, <<>>)
            /\ pc' = [pc EXCEPT ![p] = "idle"]
            /\ loc' = [loc EXCEPT ![p] = NoCall]
            /\ UNCHANGED todos
       ELSE /\ todos' = InsertRow(todos, loc[p].todo)
            /\ pc' = [pc EXCEPT ![p] = "incLoad"]
            /\ UNCHANGED <<ret, loc>>
    /\ UNCHANGED <<client, impl, nextID, autoinc, userProfile, clock, assigned,
                   initAt, initMax, deleted, mutex>>

\* SQLiteDatabase.CreateTodo: d.nextID++, the read
SQLite_Create_IncLoad(p) ==
    /\ impl = "sqlite"
    /\ pc[p] = "incLoad"
    /\ loc' = [loc EXCEPT ![p].tmp = nextID]
    /\ pc' = [pc EXCEPT ![p] = "incStore"]
    /\ UNCHANGED <<client, impl, todos, nextID, autoinc, userProfile, clock, ret, assigned,
                   initAt, initMax, deleted, mutex>>

\* SQLiteDatabase.CreateTodo: d.nextID++, the write, and return nil
SQLite_Create_IncStore(p) ==
    /\ impl = "sqlite"
    /\ pc[p] = "incStore"
    /\ nextID' = loc[p].tmp + 1
    /\ ret' = Ret("CreateTodo", "ok", loc[p].todo.id, loc[p].todo, <<>>)
    /\ assigned' = Append(assigned, loc[p].todo.id)
    /\ pc' = [pc EXCEPT ![p] = "idle"]
    /\ loc' = [loc EXCEPT ![p] = NoCall]
    /\ UNCHANGED <<client, impl, todos, autoinc, userProfile, clock, initAt, initMax, deleted, mutex>>

\* SQLiteDatabase.UpdateTodo: existingTodo, err := d.GetTodoByID(todo.ID)
SQLite_Update_Get(p, t) ==
    /\ impl = "sqlite"
    /\ pc[p] = "idle"
    /\ LET g == SQLiteDatabase_GetTodoByID(todos, t.id) IN
       IF g.err # "ok"
       THEN /\ ret' = Ret("UpdateTodo", g.err, t.id, t, <<>>)
            /\ UNCHANGED <<pc, loc>>
       ELSE /\ pc' = [pc EXCEPT ![p] = "update"]
            /\ loc' = [loc EXCEPT ![p] =
                         [op |-> "UpdateTodo",
                          todo |-> [t EXCEPT !.createdDate = g.todo.createdDate,
                                             !.lastUpdated = clock],
                          tmp |-> 0, args |-> <<>>]]
            /\ UNCHANGED ret
    /\ UNCHANGED <<client, impl, todos, nextID, autoinc, userProfile, clock, assigned,
                   initAt, initMax, deleted, mutex>>

\* SQLiteDatabase.UpdateTodo: d.db.Exec("UPDATE todos SET ... WHERE id = ?")
SQLite_Update_Exec(p) ==
    /\ impl = "sqlite"
    /\ pc[p] = "update"
    /\ LET i == IndexOf(todos, loc[p].todo.id) IN
       todos' = IF i = 0 THEN todos   \* no row matches: Exec reports no error
                ELSE [todos EXCEPT ![i] = [loc[p].todo EXCEPT
                                             !.createdDate = todos[i].createdDate]]
    /\ ret' = Ret("UpdateTodo", "ok", loc[p].todo.id, loc[p].todo, <<>>)
    /\ pc' = [pc EXCEPT ![p] = "idle"]
    /\ loc' = [loc EXCEPT ![p] = NoCall]
    /\ UNCHANGED <<client, impl, nextID, autoinc, userProfile, clock, assigned,
                   initAt, initMax, deleted, mutex>>

\* SQLiteDatabase.DeleteTodo: one DELETE statement
SQLite_Delete(p, id) ==
    /\ impl = "sqlite"
    /\ pc[p] = "idle"
    /\ LET r == SQLiteDatabase_DeleteTodo(todos, nextID, autoinc, id) IN
         /\ todos' = r.todos
         /\ ret' = Ret("DeleteTodo", r.err, id, Todo, <<>>)
         /\ deleted' = Removed(id, r.err)
    /\ UNCHANGED <<client, impl, nextID, autoinc, userProfile, clock, assigned,
                   initAt, initMax, pc, loc, mutex>>

\* the collection the writer that holds the mutex is about to leave behind
WriterResult(ts, l) ==
    CASE l.op = "CreateTodo" ->
           SimpleDatabase_CreateTodo(ts, nextID, autoinc, l.todo, clock, clock).todos
      [] l.op = "UpdateTodo" ->
           SimpleDatabase_UpdateTodo(ts, nextID, autoinc, l.todo, clock).todos
      [] l.op = "DeleteTodo" ->
           SimpleDatabase_DeleteTodo(ts, nextID, autoinc, l.todo.id).todos
      [] OTHER -> ts

\* what copy(todosCopy, d.todos) can read while a writer is inside its
\* method: a data race, every element as it was before or as the writer
\* leaves it, or not yet written
RacyCopies(ts, after) ==
    LET pool == {ts[i] : i \in DOMAIN ts} \cup {after[i] : i \in DOMAIN after} \cup {Todo}
        lens == {Len(ts), Len(after)}
    IN UNION { { s \in [1..n -> pool] :
                   \A i \in 1..n :
                      \/ i \in DOMAIN ts /\ s[i] = ts[i]
                      \/ i \in DOMAIN after /\ s[i] = after[i]
                      \/ i \notin DOMAIN ts /\ s[i] = Todo } : n \in lens }

\* the mutant of GetAll_RLock: the read lock taken without waiting for the writer
GetAll_RLock_noWait(p) ==
    /\ impl = "simple"
    /\ pc[p] = "idle"
    /\ mutex' = [mutex EXCEPT !.readers = @ \cup {p}]
    /\ pc' = [pc EXCEPT ![p] = "rlocked"]
    /\ loc' = [loc EXCEPT ![p] = [op |-> "GetAllTodos", todo |-> Todo, tmp |-> 0, args |-> <<>>]]
    /\ UNCHANGED <<client, impl, todos, nextID, autoinc, userProfile, clock, ret, assigned,
                   initAt, initMax, deleted>>

\* SimpleDatabase.GetAllTodos: d.mutex.RLock()
GetAll_RLock(p) ==
    /\ impl = "simple"
    /\ pc[p] = "idle"
    /\ mutex.writer = 0
    /\ mutex' = [mutex EXCEPT !.readers = @ \cup {p}]
    /\ pc' = [pc EXCEPT ![p] = "rlocked"]
    /\ loc' = [loc EXCEPT ![p] = [op |-> "GetAllTodos", todo |-> Todo, tmp |-> 0, args |-> <<>>]]
    /\ UNCHANGED <<client, impl, todos, nextID, autoinc, userProfile, clock, ret, assigned,
                   initAt, initMax, deleted>>

\* SimpleDatabase.GetAllTodos: the copy, the sort, the deferred RUnlock
GetAll_Body(p) ==
    /\ impl = "simple"
    /\ pc[p] = "rlocked"
    /\ \E todosCopy \in (IF mutex.writer = 0 THEN {todos}
                           ELSE RacyCopies(todos, WriterResult(todos, loc[mutex.writer]))) :
         ret' = [Ret("GetAllTodos", "ok", 0, Todo, ExchangeSort(todosCopy, 1, 2))
                 EXCEPT !.shared = SharedDueDates(impl, todosCopy)]
    /\ mutex' = [mutex EXCEPT !.readers = @ \ {p}]
    /\ pc' = [pc EXCEPT ![p] = "idle"]
    /\ loc' = [loc EXCEPT ![p] = NoCall]
    /\ UNCHANGED <<client, impl, todos, nextID, autoinc, userProfile, clock, assigned,
                   initAt, initMax, deleted>>

\* SQLiteDatabase.GetAllTodos: one SELECT statement, then the sort of its rows
SQLite_GetAll(p) ==
    /\ impl = "sqlite"
    /\ pc[p] = "idle"
    /\ ret' = [Ret("GetAllTodos", "ok", 0, Todo, SQLiteDatabase_GetAllTodos(todos))
               EXCEPT !.shared = SharedDueDates(impl, todos)]
    /\ UNCHANGED <<client, impl, todos, nextID, autoinc, userProfile, clock, assigned,
                   initAt, initMax, deleted, pc, loc, mutex>>

\* the argument maps of two update_todo calls that set different fields
ToolRaceArgs == { [k \in {"title"} |-> "w"], [k \in {"status"} |-> "completed"] }

\* MCPServer.executeUpdateTodo: todo, err := s.db.GetTodoByID(id) under the
\* read lock, then the arguments that are present are written into the copy
Tool_Update_Get(p, id, args) ==
    /\ impl = "simple"
    /\ pc[p] = "idle"
    /\ mutex.writer = 0
    /\ LET g == SimpleDatabase_GetTodoByID(todos, id) IN
       IF g.err # "ok"
       THEN /\ ret' = [Ret("update_todo", "notfound", id, Todo, <<>>) EXCEPT !.req = args]
            /\ UNCHANGED <<pc, loc>>
       ELSE /\ pc' = [pc EXCEPT ![p] = "merged"]
            /\ loc' = [loc EXCEPT ![p] =
                         [op |-> "update_todo",
                          todo |-> [executeUpdateTodo_merge(g.todo, args)
                                      EXCEPT !.lastUpdated = clock],
                          tmp |-> 0, args |-> args]]
            /\ UNCHANGED ret
    /\ UNCHANGED <<client, impl, todos, nextID, autoinc, userProfile, clock, assigned,
                   initAt, initMax, deleted, mutex>>

\* MCPServer.executeUpdateTodo: s.db.UpdateTodo(todo), the whole method
\* between Lock and Unlock, and the result of the tool
Tool_Update_Put(p) ==
    /\ impl = "simple"
    /\ pc[p] = "merged"
    /\ mutex.writer = 0 /\ mutex.readers = {}
    /\ LET r == SimpleDatabase_UpdateTodo(todos, nextID, autoinc, loc[p].todo, clock) IN
         /\ todos' = r.todos
         /\ ret' = [Ret("update_todo", r.err, loc[p].todo.id, r.todo, <<>>)
                    EXCEPT !.req = loc[p].args]
    /\ pc' = [pc EXCEPT ![p] = "idle"]
    /\ loc' = [loc EXCEPT ![p] = NoCall]
    /\ UNCHANGED <<client, impl, nextID, autoinc, userProfile, clock, assigned,
                   initAt, initMax, deleted, mutex>>

NextRace ==
    \/ \E p \in Procs : GetAll_RLock(p)
    \/ \E p \in Procs : GetAll_Body(p)
    \/ \E p \in Procs : SQLite_GetAll(p)
    \/ \E p \in Procs : Lock(p, "CreateTodo", TitleOnly)
    \/ \E p \in Procs, t \in UpdateInputs : Lock(p, "UpdateTodo", t)
    \/ \E p \in Procs, id \in CallerIDs : Lock(p, "DeleteTodo", [Todo EXCEPT !.id = id])
    \/ \E p \in Procs : Locked(p)
    \/ \E p \in Procs : SQLite_Create_ReadNextID(p, TitleOnly)
    \/ \E p \in Procs : SQLite_Create_Insert(p)
    \/ \E p \in Procs : SQLite_Create_IncLoad(p)
    \/ \E p \in Procs : SQLite_Create_IncStore(p)
    \/ \E p \in Procs, t \in UpdateInputs : SQLite_Update_Get(p, t)
    \/ \E p \in Procs : SQLite_Update_Exec(p)
    \/ \E p \in Procs, id \in CallerIDs : SQLite_Delete(p, id)

\* the store is one of the two that the servers run on
InitRace == Init /\ Wired

SpecRace == InitRace /\ [][NextRace]_vars

\* concurrent update_todo calls of the MCP server on SimpleDatabase, with the
\* creates and deletes that run beside them
NextToolRace ==
    \/ \E p \in Procs : Lock(p, "CreateTodo", TitleOnly)
    \/ \E p \in Procs, id \in CallerIDs : Lock(p, "DeleteTodo", [Todo EXCEPT !.id = id])
    \/ \E p \in Procs : Locked(p)
    \/ \E p \in Procs, id \in CallerIDs, args \in ToolRaceArgs : Tool_Update_Get(p, id, args)
    \/ \E p \in Procs : Tool_Update_Put(p)

InitToolRace == Init /\ impl = "simple"

SpecToolRace == InitToolRace /\ [][NextToolRace]_vars

\* a delete request arrives: the handler has read the id and is about to
\* call DeleteTodo
Delete_Request(p, id) ==
    /\ pc[p] = "idle"
    /\ pc' = [pc EXCEPT ![p] = "deleting"]
    /\ loc' = [loc EXCEPT ![p] = [op |-> "DeleteTodo", todo |-> [Todo EXCEPT !.id = id],
                                  tmp |-> 0, args |-> <<>>]]
    /\ UNCHANGED <<client, impl, todos, nextID, autoinc, userProfile, clock, ret, assigned,
                   initAt, initMax, deleted, mutex>>

\* db.DeleteTodo(id) of the request: the whole method between Lock and
\* Unlock in SimpleDatabase, one DELETE statement in the SQL stores
Delete_Call(p) ==
    /\ pc[p] = "deleting"
    /\ mutex.writer = 0 /\ mutex.readers = {}
    /\ LET r == Store_DeleteTodo(impl, todos, nextID, autoinc, loc[p].todo.id) IN
         /\ todos' = r.todos
         /\ ret' = Ret("DeleteTodo", r.err, loc[p].todo.id, Todo, <<>>)
         /\ deleted' = Removed(loc[p].todo.id, r.err)
    /\ pc' = [pc EXCEPT ![p] = "idle"]
    /\ loc' = [loc EXCEPT ![p] = NoCall]
    /\ UNCHANGED <<client, impl, nextID, autoinc, userProfile, clock, assigned,
                   initAt, initMax, mutex>>

\* delete requests served concurrently, on each of the three stores
NextDelete ==
    \/ \E t \in CreateInputs : Len(todos) <= MaxTodos /\ CreateTodo(t, 0)
    \/ \E p \in Procs, id \in CallerIDs : Delete_Request(p, id)
    \/ \E p \in Procs : Delete_Call(p)

SpecDelete == Init /\ [][NextDelete]_vars

\* the number of CreateTodo calls in the runs of the id allocator
MaxAllocCreates == MaxCreates + 1

\* SQLiteDatabase.CreateTodo: todo.ID = d.nextID, timestamps and defaults,
\* in runs of up to MaxAllocCreates creates
SQLite_CreateTodo_Begin(p, t) ==
    /\ impl = "sqlite"
    /\ pc[p] = "idle"
    /\ Len(assigned) + Cardinality({q \in Procs : loc[q].op = "CreateTodo"}) < MaxAllocCreates
    /\ pc' = [pc EXCEPT ![p] = "insert"]
    /\ loc' = [loc EXCEPT ![p] =
                 [op |-> "CreateTodo",
                  todo |-> WithDefaults([t EXCEPT !.id = nextID, !.createdDate = clock,
                                                  !.lastUpdated = clock]),
                  tmp |-> 0, args |-> <<>>]]
    /\ UNCHANGED <<client, impl, todos, nextID, autoinc, userProfile, clock, ret, assigned,
                   initAt, initMax, deleted, mutex>>

\* creates and deletes of concurrent callers: the id allocator of the two
\* stores under load
NextAlloc ==
    \/ \E p \in Procs : Lock(p, "CreateTodo", TitleOnly)
    \/ \E p \in Procs, id \in CallerIDs : Lock(p, "DeleteTodo", [Todo EXCEPT !.id = id])
    \/ \E p \in Procs : Locked(p)
    \/ \E p \in Procs : SQLite_CreateTodo_Begin(p, TitleOnly)
    \/ \E p \in Procs : SQLite_Create_Insert(p)
    \/ \E p \in Procs : SQLite_Create_IncLoad(p)
    \/ \E p \in Procs : SQLite_Create_IncStore(p)
    \/ \E p \in Procs, id \in CallerIDs : SQLite_Delete(p, id)

SpecAlloc == InitRace /\ [][NextAlloc]_vars

----------------------------------------------------------------------------
(* ImportFromJSON of the three stores, on files that import and files that  *)
(* fail                                                                     *)

RECURSIVE InsertUntilConflict(_, _)
\* Database.importTodos: stmt.Exec for each todo of the file in turn, until
\* an INSERT fails on the PRIMARY KEY; the rows inserted before it stay
InsertUntilConflict(ts, new) ==
    IF new = <<>> THEN [todos |-> ts, err |-> "ok"]
    ELSE IF Head(new).id \in IDs(ts) THEN [todos |-> ts, err |-> "storage"]
    ELSE InsertUntilConflict(InsertRow(ts, Head(new)), Tail(new))

\* Database.ImportFromJSON: importUserProfile (DELETE, INSERT), then
\* importTodos (DELETE FROM todos, the INSERTs), each statement on its own
Database_ImportFromJSON(f) ==
    /\ Idle
    /\ impl = "database"
    /\ IF f.ok
       THEN LET r == InsertUntilConflict(<<>>, f.todos) IN
            /\ userProfile' = [f.profile EXCEPT !.set = TRUE]
            /\ todos' = r.todos
            /\ autoinc' = IF MaxID(r.todos) > autoinc THEN MaxID(r.todos) ELSE autoinc
            /\ initAt' = Len(assigned)
            /\ initMax' = MaxID(r.todos)
            /\ deleted' = deleted \ IDs(r.todos)
            /\ ret' = Ret("ImportFromJSON", r.err, 0, Todo, <<>>)
       ELSE /\ ret' = Ret("ImportFromJSON", "storage", 0, Todo, <<>>)
            /\ UNCHANGED <<userProfile, todos, autoinc, initAt, initMax, deleted>>
    /\ UNCHANGED <<client, impl, nextID, clock, assigned, pc, loc, mutex>>

\* a file in which two todos carry the same id
TwiceFile ==
    [ok |-> TRUE, profile |-> UserProfile("v", "UTC"),
     todos |-> << [Todo EXCEPT !.id = 2, !.title = "d", !.priority = "low",
                               !.status = "pending", !.createdDate = 1, !.lastUpdated = 1],
                  [Todo EXCEPT !.id = 2, !.title = "e", !.priority = "high",
                               !.status = "pending", !.createdDate = 1, !.lastUpdated = 1] >>]

ImportInputs == ImportFiles \cup {TwiceFile}

NextImport ==
    \/ CreateTodo(TitleOnly, 0)
    \/ \E f \in ImportInputs : SimpleDatabase_ImportFromJSON(f)
    \/ \E f \in ImportInputs : SQLiteDatabase_ImportFromJSON(f)
    \/ \E f \in ImportInputs : Database_ImportFromJSON(f)

SpecImport == Init /\ [][NextImport]_vars

----------------------------------------------------------------------------
(* MCPClient: the web page's client of the MCP server, its socket events,   *)
(* the responses and the request timers                                     *)

store == <<impl, todos, nextID, autoinc, userProfile, clock, ret, assigned,
           initAt, initMax, deleted, pc, loc, mutex>>

\* resolve() and reject() of the promise of connect(): only the first
\* settles it
Settle(promise, outcome) == IF promise = "pending" THEN outcome ELSE promise

\* sendRequest: the request is recorded under a fresh id, sent, and its
\* 30 second timer started
sendRequest(c, method) ==
    [c EXCEPT !.requestId = @ + 1,
              !.pendingRequests = @ \cup {[id |-> c.requestId, method |-> method]}]

\* connect(): new WebSocket(this.url) inside the promise; a constructor that
\* throws is caught and rejects
connect ==
    /\ client.promise = "none"
    /\ \E throws \in BOOLEAN :
         client' = IF throws THEN [client EXCEPT !.promise = "rejected"]
                   ELSE [client EXCEPT !.ws = "connecting", !.promise = "pending"]
    /\ UNCHANGED store

\* ws.onopen: connected = true, then await this.initialize()
ws_onopen ==
    /\ client.ws = "connecting"
    /\ client' = sendRequest([client EXCEPT !.ws = "open", !.connected = TRUE,
                                            !.onopen = "initialize"], "initialize")
    /\ UNCHANGED store

\* the rest of onopen after the awaited request settled: a rejection leaves
\* the async handler, with nothing that calls reject; after initialize comes
\* getTools, after tools/list emit('connected') and resolve()
onopen_continue(c, method, failed) ==
    IF method = "tools/call" THEN c
    ELSE IF failed THEN [c EXCEPT !.onopen = "threw"]
    ELSE IF method = "initialize"
    THEN (IF c.connected THEN sendRequest([c EXCEPT !.onopen = "tools/list"], "tools/list")
          ELSE [c EXCEPT !.onopen = "threw"])
    ELSE [c EXCEPT !.tools = "listed", !.onopen = "done",
                   !.promise = Settle(@, "resolved")]

\* ws.onmessage -> handleMessage: a response to a pending request, a result
\* or an error
handleMessage(r, error) ==
    /\ client.ws = "open"
    /\ r \in client.pendingRequests
    /\ client' = onopen_continue([client EXCEPT !.pendingRequests = @ \ {r}],
                                 r.method, error)
    /\ UNCHANGED store

\* the setTimeout of sendRequest fires while the request is still pending
timeout(r) ==
    /\ r \in client.pendingRequests
    /\ client' = onopen_continue([client EXCEPT !.pendingRequests = @ \ {r}],
                                 r.method, TRUE)
    /\ UNCHANGED store

\* ws.onclose: connected = false, emit('disconnected')
ws_onclose ==
    /\ client.ws \in {"connecting", "open"}
    /\ client' = [client EXCEPT !.ws = "closed", !.connected = FALSE]
    /\ UNCHANGED store

\* ws.onerror: emit('error'), reject(error)
ws_onerror ==
    /\ client.ws \in {"connecting", "open"}
    /\ client' = [client EXCEPT !.promise = Settle(@, "rejected")]
    /\ UNCHANGED store

\* callTool: sendRequest('tools/call', ...) of a connected client
callTool ==
    /\ client.connected
    /\ client.requestId <= MaxRequests
    /\ client' = sendRequest(client, "tools/call")
    /\ UNCHANGED store

NextClient ==
    \/ connect
    \/ ws_onopen
    \/ \E r \in client.pendingRequests, error \in BOOLEAN : handleMessage(r, error)
    \/ \E r \in client.pendingRequests : timeout(r)
    \/ ws_onclose
    \/ ws_onerror
    \/ callTool

SpecClient == Init /\ [][NextClient]_vars

----------------------------------------------------------------------------
(* GetAllTodos on an arbitrary stored collection *)

SortPriorities == {"urgent", "high", "medium", "low", "someday"}

SortDues == {NoDue, 1, 2}

\* the collection of the items with the given priorities and due dates,
\* numbered in stored order
SortInput(f) ==
    [i \in DOMAIN f |-> [Todo EXCEPT !.id = i, !.title = "t",
                                     !.priority = f[i][1], !.dueDate = f[i][2]]]

GetAllTodos ==
    /\ Idle /\ Wired
    /\ ret' = [Ret("GetAllTodos", "ok", 0, Todo,
                   IF impl = "simple" THEN SimpleDatabase_GetAllTodos(todos)
                   ELSE SQLiteDatabase_GetAllTodos(todos))
               EXCEPT !.shared = SharedDueDates(impl, todos)]
    /\ UNCHANGED <<client, impl, todos, nextID, autoinc, userProfile, clock, assigned,
                   initAt, initMax, deleted, pc, loc, mutex>>

InitSort ==
    /\ impl \in {"simple", "sqlite"}
    /\ \E n \in 0..MaxSortLen : \E f \in [1..n -> SortPriorities \X SortDues] :
         todos = SortInput(f)
    /\ nextID = MaxID(todos) + 1
    /\ autoinc = 0
    /\ userProfile = NoProfile
    /\ clock = 1
    /\ ret = Ret("ImportFromJSON", "ok", 0, Todo, <<>>)
    /\ assigned = <<>>
    /\ initAt = 0
    /\ initMax = MaxID(todos)
    /\ deleted = {}
    /\ pc = [p \in Procs |-> "idle"]
    /\ loc = [p \in Procs |-> NoCall]
    /\ mutex = [writer |-> 0, readers |-> {}]
    /\ client = NewClient

NextSort == GetAllTodos

SpecSort == InitSort /\ [][NextSort]_vars

\* CASE priority WHEN 'urgent' THEN 1 ... END: NULL for any other priority,
\* and NULL sorts before every number
OrderByPriority(p) == priorityOrder(p)

\* ORDER BY CASE priority ... END, due_date ASC: a row may not come after a
\* row that sorts after it; a NULL due_date sorts before every date
SqlAfter(a, b) ==
    \/ OrderByPriority(a.priority) > OrderByPriority(b.priority)
    \/ /\ OrderByPriority(a.priority) = OrderByPriority(b.priority)
       /\ a.dueDate > b.dueDate

\* Database.GetAllTodos: the rows in an order that ORDER BY allows; rows
\* with equal keys come in whatever order the engine produces
Database_GetAllTodos(ts) ==
    LET n == Len(ts)
        perms == {f \in [1..n -> 1..n] : \A i, j \in 1..n : i # j => f[i] # f[j]}
    IN { [i \in 1..n |-> ts[f[i]]] :
           f \in {g \in perms : \A i, j \in 1..n : i < j => ~SqlAfter(ts[g[i]], ts[g[j]])} }

\* GetAllTodos called on the Database store
GetAllTodos_Database ==
    /\ Idle /\ impl = "database"
    /\ \E list \in Database_GetAllTodos(todos) :
         ret' = Ret("Database.GetAllTodos", "ok", 0, Todo, list)
    /\ UNCHANGED <<client, impl, todos, nextID, autoinc, userProfile, clock, assigned,
                   initAt, initMax, deleted, pc, loc, mutex>>

\* a Database that holds an arbitrary collection, in insertion order
InitOrder ==
    /\ impl = "database"
    /\ \E n \in 0..MaxSortLen : \E f \in [1..n -> SortPriorities \X SortDues] :
         todos = SortInput(f)
    /\ nextID = 1
    /\ autoinc = MaxID(todos)
    /\ userProfile = NoProfile
    /\ clock = 1
    /\ ret = Ret("ImportFromJSON", "ok", 0, Todo, <<>>)
    /\ assigned = <<>>
    /\ initAt = 0
    /\ initMax = MaxID(todos)
    /\ deleted = {}
    /\ pc = [p \in Procs |-> "idle"]
    /\ loc = [p \in Procs |-> NoCall]
    /\ mutex = [writer |-> 0, readers |-> {}]
    /\ client = NewClient

NextOrder == GetAllTodos_Database

SpecOrder == InitOrder /\ [][NextOrder]_vars

----------------------------------------------------------------------------
(* GET /api/ai/optimize *)

\* if len(priorityTasks) > 10
OptimizeLimit == 10

\* the condition under which aiOptimizeSchedule takes an item
IsPriorityTask(t) ==
    /\ t.status \in {"pending", "in_progress"}
    /\ t.priority \in {"urgent", "high"}

\* the selection that looks at the priority only
PriorityTasks_anyStatus(ts) ==
    SelectSeq(ts, LAMBDA t : t.priority \in {"urgent", "high"})

\* for _, todo := range todos { if ... { priorityTasks = append(...) } }
PriorityTasks(ts) == SelectSeq(ts, IsPriorityTask)

\* priorityTasks = priorityTasks[:10]
Truncate(s) == IF Len(s) > OptimizeLimit THEN SubSeq(s, 1, OptimizeLimit) ELSE s

\* aiOptimizeSchedule: the listing of the store, the selection, the sort of
\* the selection and the cut
aiOptimizeSchedule ==
    /\ Idle /\ Wired
    /\ LET listed == IF impl = "simple" THEN SimpleDatabase_GetAllTodos(todos)
                     ELSE SQLiteDatabase_GetAllTodos(todos)
       IN ret' = Ret("aiOptimizeSchedule", "ok", 0, Todo,
                     Truncate(ExchangeSort(PriorityTasks(listed), 1, 2)))
    /\ UNCHANGED <<client, impl, todos, nextID, autoinc, userProfile, clock, assigned,
                   initAt, initMax, deleted, pc, loc, mutex>>

OptStatuses == {"pending", "in_progress", "completed"}

\* the collection of the items with the given priorities, statuses and due
\* dates, numbered in stored order
OptInput(f) ==
    [i \in DOMAIN f |-> [Todo EXCEPT !.id = i, !.title = "t", !.priority = f[i][1],
                                     !.status = f[i][2], !.dueDate = f[i][3]]]

\* what the items of a short collection are drawn from
OptShort == SortPriorities \X OptStatuses \X {NoDue, 1}

\* what the items of a long collection are drawn from
OptLong == { <<"urgent", "pending", NoDue>>, <<"high", "in_progress", 1>> }

\* a store that holds a short collection of any items, or a long one of
\* urgent and high items that are still open
InitOptimize ==
    /\ impl \in {"simple", "sqlite"}
    /\ \/ \E n \in 0..MaxOptShort : \E f \in [1..n -> OptShort] :
            todos = OptInput(f)
       \/ \E n \in (OptimizeLimit - 1)..MaxOptLen : \E f \in [1..n -> OptLong] :
            todos = OptInput(f)
    /\ nextID = MaxID(todos) + 1
    /\ autoinc = 0
    /\ userProfile = NoProfile
    /\ clock = 1
    /\ ret = Ret("ImportFromJSON", "ok", 0, Todo, <<>>)
    /\ assigned = <<>>
    /\ initAt = 0
    /\ initMax = MaxID(todos)
    /\ deleted = {}
    /\ pc = [p \in Procs |-> "idle"]
    /\ loc = [p \in Procs |-> NoCall]
    /\ mutex = [writer |-> 0, readers |-> {}]
    /\ client = NewClient

NextOptimize == aiOptimizeSchedule

SpecOptimize == InitOptimize /\ [][NextOptimize]_vars

----------------------------------------------------------------------------
(* The list_todos tool of the two MCP servers *)

\* if status, ok := args["status"].(string); ok && status != "" { ... }:
\* the item passes every filter that is present and not empty
Include(t, args) ==
    /\ getStringArg(args, "status") # "" => t.status = getStringArg(args, "status")
    /\ getStringArg(args, "priority") # "" => t.priority = getStringArg(args, "priority")
    /\ getStringArg(args, "category") # "" => t.category = getStringArg(args, "category")

\* filteredTodos of executeListTodos
filteredTodos(ts, args) == SelectSeq(ts, LAMBDA t : Include(t, args))

\* MCPServer.executeListTodos on SimpleDatabase: the result is the text
\* "Found %d todos matching the criteria", kept in id; no item is returned
executeListTodos(args) ==
    /\ Idle /\ impl = "simple"
    /\ ret' = [Ret("list_todos", "ok",
                   Len(filteredTodos(SimpleDatabase_GetAllTodos(todos), args)), Todo, <<>>)
               EXCEPT !.req = args]
    /\ UNCHANGED <<client, impl, todos, nextID, autoinc, userProfile, clock, assigned,
                   initAt, initMax, deleted, pc, loc, mutex>>

\* list_todos registered on SQLiteDatabase: todo, _ := sqlite.GetAllTodos()
\* is the structured result, the request is not read
list_todos(args) ==
    /\ Idle /\ impl = "sqlite"
    /\ ret' = [Ret("list_todos", "ok", Len(todos), Todo, SQLiteDatabase_GetAllTodos(todos))
               EXCEPT !.req = args]
    /\ UNCHANGED <<client, impl, todos, nextID, autoinc, userProfile, clock, assigned,
                   initAt, initMax, deleted, pc, loc, mutex>>

\* the argument maps of the list_todos calls
ListArgs ==
    { <<>>,
      [k \in {"status"} |-> "completed"],
      [k \in {"status"} |-> ""],
      [k \in {"priority"} |-> "high"],
      [k \in {"status", "priority"} |-> IF k = "status" THEN "pending" ELSE "urgent"],
      [k \in {"category"} |-> "work"] }

NextList ==
    \/ \E args \in ListArgs : executeListTodos(args)
    \/ \E args \in ListArgs : list_todos(args)

\* a store that holds a short collection of any items
InitList == InitOptimize /\ Len(todos) <= MaxOptShort

SpecList == InitList /\ [][NextList]_vars

----------------------------------------------------------------------------
(* A caller changing the sequence that GetAllTodos returned to it *)

Holding == Idle /\ ret.op = "GetAllTodos"

\* todos[k] = Todo{...}: another value in an element of the returned slice
Caller_SetElement(k) ==
    /\ Holding /\ k \in DOMAIN ret.list
    /\ ret' = [ret EXCEPT !.list[k] = [Todo EXCEPT !.id = ret.list[k].id, !.title = "m"],
                          !.shared = @ \ {ret.list[k].id}]
    /\ UNCHANGED <<client, impl, todos, nextID, autoinc, userProfile, clock, assigned,
                   initAt, initMax, deleted, pc, loc, mutex>>

\* todos[k].Status = "completed": a field of a returned item
Caller_SetField(k) ==
    /\ Holding /\ k \in DOMAIN ret.list
    /\ ret' = [ret EXCEPT !.list[k].status = "completed"]
    /\ UNCHANGED <<client, impl, todos, nextID, autoinc, userProfile, clock, assigned,
                   initAt, initMax, deleted, pc, loc, mutex>>

\* todos[k].DueDate = &v: another pointer in the returned item
Caller_SetDueDate(k, v) ==
    /\ Holding /\ k \in DOMAIN ret.list
    /\ ret' = [ret EXCEPT !.list[k].dueDate = v, !.shared = @ \ {ret.list[k].id}]
    /\ UNCHANGED <<client, impl, todos, nextID, autoinc, userProfile, clock, assigned,
                   initAt, initMax, deleted, pc, loc, mutex>>

\* *todos[k].DueDate = v: a write through the DueDate pointer of a returned
\* item, which reaches the stored item when the two hold the same pointer
Caller_WriteDueDate(k, v) ==
    /\ Holding /\ k \in DOMAIN ret.list
    /\ ret.list[k].dueDate # NoDue
    /\ ret' = [ret EXCEPT !.list[k].dueDate = v]
    /\ todos' = [i \in DOMAIN todos |->
                   IF todos[i].id = ret.list[k].id /\ todos[i].id \in ret.shared
                   THEN [todos[i] EXCEPT !.dueDate = v] ELSE todos[i]]
    /\ UNCHANGED <<client, impl, nextID, autoinc, userProfile, clock, assigned,
                   initAt, initMax, deleted, pc, loc, mutex>>

\* SimpleDatabase.GetUserProfile fails when d.userProfile is nil,
\* SQLiteDatabase.GetUserProfile when user_profile has no row
GetUserProfile ==
    /\ Idle /\ Wired
    /\ ret' = IF userProfile.set
              THEN [Ret("GetUserProfile", "ok", 0, Todo, <<>>)
                    EXCEPT !.profile = userProfile]
              ELSE Ret("GetUserProfile", "notfound", 0, Todo, <<>>)
    /\ UNCHANGED <<client, impl, todos, nextID, autoinc, userProfile, clock, assigned,
                   initAt, initMax, deleted, pc, loc, mutex>>

CallerDues == 1..MaxClock

NextCopy ==
    \/ \E f \in ImportFiles : SimpleDatabase_ImportFromJSON(f)
    \/ \E f \in ImportFiles : SQLiteDatabase_ImportFromJSON(f)
    \/ GetAllTodos
    \/ GetUserProfile
    \/ \E k \in 1..Len(ret.list) : Caller_SetElement(k)
    \/ \E k \in 1..Len(ret.list) : Caller_SetField(k)
    \/ \E k \in 1..Len(ret.list), v \in CallerDues : Caller_SetDueDate(k, v)
    \/ \E k \in 1..Len(ret.list), v \in CallerDues : Caller_WriteDueDate(k, v)

SpecCopy == InitRace /\ [][NextCopy]_vars

----------------------------------------------------------------------------
(* Identity allocator *)

\* the ids assigned since the store was last initialised
SinceInit == (initAt + 1)..Len(assigned)

\* C1: the ids that the CreateTodo calls on one store instance assign are
\* pairwise distinct, whatever updates and deletes lie between the creates
C1_IdsPairwiseDistinct ==
    \A i, j \in SinceInit : i # j => assigned[i] # assigned[j]

\* a second id was assigned after the item with the first one was deleted
C1_Witness ==
    /\ Len(assigned) >= initAt + 2
    /\ ret.op = "CreateTodo" /\ ret.err = "ok"
    /\ assigned[initAt + 1] \notin IDs(todos)

\* C2: an id that was ever assigned is never assigned again, also not after a
\* delete and not after the next id is recomputed from the persisted state
C2_IdNeverReused ==
    \A i, j \in 1..Len(assigned) : i # j => assigned[i] # assigned[j]

----------------------------------------------------------------------------
(* Defaults and timestamps *)

Stored(id) == {todos[i] : i \in {k \in DOMAIN todos : todos[k].id = id}}

UpdateOps == {"UpdateTodo", "updateTodo", "update_todo"}

\* C5: the store's CreateTodo turns an empty status, priority and category
\* into "pending", "medium" and "personal", keeps the values a caller gave,
\* and stores the record it returns
C5_DefaultsInjected ==
    (ret.op = "CreateTodo" /\ ret.err = "ok") =>
        /\ ret.todo \in Stored(ret.id)
        /\ ret.todo.title = TitleOnly.title =>
             /\ ret.todo.status = "pending"
             /\ ret.todo.priority = "medium"
             /\ ret.todo.category = "personal"
        /\ ret.todo.title = Filled.title =>
             /\ ret.todo.status = Filled.status
             /\ ret.todo.priority = Filled.priority
             /\ ret.todo.category = Filled.category

\* C6: no call changes the createdDate of an item that stays in the store;
\* in particular no UpdateTodo does, whatever createdDate the caller passes
C6_CreatedDateImmutable ==
    [][\A i \in DOMAIN todos, j \in DOMAIN todos' :
          todos[i].id = todos'[j].id => todos'[j].createdDate = todos[i].createdDate]_vars

\* a store-level update went through whose caller passed another createdDate
C6_Witness ==
    /\ ret.op = "UpdateTodo" /\ ret.err = "ok"
    /\ \E t \in Stored(ret.id) :
         /\ t.title = "z"
         /\ t.createdDate <= MaxClock
         /\ t.createdDate < t.lastUpdated

\* a step that is a successful update (every other call leaves another op
\* in ret, and Tick moves the clock)
UpdateStep == ret'.op \in UpdateOps /\ ret'.err = "ok" /\ clock' = clock

\* C7: after a successful UpdateTodo the stored lastUpdated is the time of
\* the update, whatever the caller passed, and not before the previous one
C7_LastUpdatedIsNow ==
    [][UpdateStep =>
         \A j \in DOMAIN todos' : todos'[j].id = ret'.id =>
             /\ todos'[j].lastUpdated = clock'
             /\ \A i \in DOMAIN todos : todos[i].id = ret'.id =>
                    todos'[j].lastUpdated >= todos[i].lastUpdated]_vars

\* C8: every stored item has lastUpdated >= createdDate
C8_LastUpdatedNotBeforeCreated ==
    \A i \in DOMAIN todos : todos[i].lastUpdated >= todos[i].createdDate

----------------------------------------------------------------------------
(* Concurrent callers *)

\* C4: under any interleaving of concurrent creates, updates and deletes the
\* store never holds two items with one id, and no two successful CreateTodo
\* calls return the same id
C4_NoDuplicateIds ==
    /\ \A i, j \in DOMAIN todos : i # j => todos[i].id # todos[j].id
    /\ \A i, j \in 1..Len(assigned) : i # j => assigned[i] # assigned[j]

----------------------------------------------------------------------------
(* Ordering *)

\* the rank the ordering rule gives a priority
Rank(p) ==
    IF p = "urgent" THEN 1 ELSE IF p = "high" THEN 2 ELSE IF p = "medium" THEN 3
    ELSE IF p = "low" THEN 4 ELSE 0

\* C9: the sequence GetAllTodos returns is non-decreasing in priority rank,
\* urgent=1, high=2, medium=3, low=4 and every other priority 0, so that an
\* unknown priority comes before urgent
C9_SortedByRank ==
    ret.op = "GetAllTodos" =>
        \A i, j \in DOMAIN ret.list :
            i < j => Rank(ret.list[i].priority) <= Rank(ret.list[j].priority)

\* an item of unknown priority stored last is returned first, before urgent
C9_Witness ==
    /\ ret.op = "GetAllTodos"
    /\ Len(todos) = 3
    /\ todos[1].priority = "low" /\ todos[2].priority = "urgent"
    /\ todos[3].priority = "someday"
    /\ ret.list[1].id = 3 /\ ret.list[2].id = 2 /\ ret.list[3].id = 1

\* C10: two returned items of one priority rank that both have a dueDate are
\* in ascending dueDate order, also with an item without dueDate between them
C10_DueDateAscending ==
    ret.op = "GetAllTodos" =>
        \A i, j \in DOMAIN ret.list :
            (/\ i < j
             /\ Rank(ret.list[i].priority) = Rank(ret.list[j].priority)
             /\ ret.list[i].dueDate # NoDue
             /\ ret.list[j].dueDate # NoDue)
            => ret.list[i].dueDate <= ret.list[j].dueDate

\* A(high, day 2), N(high, no due date), C(high, day 1) comes back as C, N, A
C10_Witness ==
    /\ ret.op = "GetAllTodos"
    /\ Len(todos) = 3
    /\ \A i \in 1..3 : todos[i].priority = "high"
    /\ todos[1].dueDate = 2 /\ todos[2].dueDate = NoDue /\ todos[3].dueDate = 1
    /\ ret.list[1].id = 3 /\ ret.list[2].id = 2 /\ ret.list[3].id = 1

\* two items with the same priority rank and the same dueDate (or none)
SameKeys(a, b) ==
    Rank(a.priority) = Rank(b.priority) /\ a.dueDate = b.dueDate

C12_UndatedPairKeepsOrder ==
    (/\ ret.op = "GetAllTodos"
     /\ Len(todos) = 2
     /\ Rank(todos[1].priority) = Rank(todos[2].priority)
     /\ (todos[1].dueDate = NoDue \/ todos[2].dueDate = NoDue))
    => ret.list = todos

\* D(medium, no due date) stored before E(medium, day 1) comes back as D, E
C12_Witness ==
    /\ ret.op = "GetAllTodos"
    /\ Len(todos) = 2
    /\ todos[1].priority = "medium" /\ todos[1].dueDate = NoDue
    /\ todos[2].priority = "medium" /\ todos[2].dueDate = 1
    /\ ret.list[1].id = 1 /\ ret.list[2].id = 2

\* C13: GetAllTodos returns a permutation of the stored collection: the same
\* length, every stored item exactly once and nothing else
C13_Permutation ==
    ret.op = "GetAllTodos" =>
        /\ Len(ret.list) = Len(todos)
        /\ \A i \in DOMAIN todos :
               Cardinality({j \in DOMAIN ret.list : ret.list[j] = todos[i]}) = 1
        /\ \A j \in DOMAIN ret.list : \E i \in DOMAIN todos : ret.list[j] = todos[i]

\* three stored items come back in another order, each once
C13_Witness ==
    /\ ret.op = "GetAllTodos"
    /\ Len(todos) = 3 /\ Len(ret.list) = 3
    /\ ret.list # todos
    /\ {ret.list[j].id : j \in 1..3} = {1, 2, 3}

\* C14: the result of GetAllTodos is independent of the store: neither the
\* call nor any change the caller makes to the returned sequence, to a field
\* of a returned item or to the value behind its DueDate pointer changes the
\* stored collection
C14_ResultIndependent ==
    [][ret'.op = "GetAllTodos" => todos' = todos]_vars

\* C15: a GetAllTodos that runs while other callers create, update and
\* delete returns the ordered collection as it is at one instant of the call,
\* the instant it returns: every concurrent write is in it wholly or not at all
C15_ConsistentSnapshot ==
    [][(ret' # ret /\ ret'.op = "GetAllTodos")
         => (ret'.list = ExchangeSort(todos, 1, 2) /\ todos' = todos)]_vars

\* a GetAllTodos returned the row of a CreateTodo that has not returned yet,
\* or returned an item while another caller was between the two statements
\* of its UpdateTodo
C15_Witness ==
    /\ ret.op = "GetAllTodos"
    /\ Len(ret.list) > 0
    /\ \E p \in Procs : pc[p] \in {"incLoad", "incStore", "update"}

\* C16: an UpdateTodo that races with a DeleteTodo of the same id acts as in
\* one of the two serial orders: it reports success only when the record was
\* still stored at its write, so no UpdateTodo has just reported success for
\* an id that is not stored
C16_UpdateDeleteLinearized ==
    (ret.op = "UpdateTodo" /\ ret.err = "ok") => ret.id \in IDs(todos)

----------------------------------------------------------------------------
(* Calls that name an id *)

\* C17: UpdateTodo with an id that no stored item has returns a not-found
\* error and leaves the items, their order and the next id as they are
C17_UpdateMissingNotFound ==
    [][(ret'.op = "UpdateTodo" /\ ret'.id \notin IDs(todos))
         => (ret'.err = "notfound" /\ todos' = todos /\ nextID' = nextID)]_vars

DeleteOps == {"DeleteTodo", "deleteTodo"}

\* C18: DeleteTodo with an id that no stored item has returns a not-found
\* error and leaves the collection as it is, and the DELETE handler
\* answers 404
C18_DeleteMissingNotFound ==
    [][(ret'.op \in DeleteOps /\ clock' = clock /\ ret'.id \notin IDs(todos))
         => (ret'.err = "notfound" /\ todos' = todos)]_vars

\* C19: once a DeleteTodo has removed a record, no item with that id is
\* stored in any later state, so that GetTodoByID fails and GetAllTodos holds
\* no such item: no UpdateTodo, CreateTodo or restart brings the id back
C19_DeletedStaysGone ==
    \A id \in deleted :
        /\ id \notin IDs(todos)
        /\ Store_GetTodoByID(impl, todos, id).err = "notfound"

CreateOps == {"CreateTodo", "createTodo"}

\* C20: GetTodoByID on the id that a CreateTodo has just returned succeeds
\* and yields a record equal in every field to the one CreateTodo returned
C20_CreateGetRoundTrip ==
    (ret.op \in CreateOps /\ ret.err = "ok") =>
        LET g == Store_GetTodoByID(impl, todos, ret.id) IN
        /\ g.err = "ok"
        /\ \A field \in DOMAIN Todo : g.todo[field] = ret.todo[field]

\* a record with every field filled in, a dueDate included, was created with
\* time passing between its two timestamps
C20_Witness ==
    /\ ret.op = "CreateTodo" /\ ret.err = "ok"
    /\ ret.todo.title = Filled.title /\ ret.todo.dueDate = Filled.dueDate
    /\ ret.todo.createdDate < ret.todo.lastUpdated
    /\ ret.id \in IDs(todos)

----------------------------------------------------------------------------
(* Failing calls *)

StoreOps == {"CreateTodo", "UpdateTodo", "DeleteTodo"}

\* C21: a CreateTodo, UpdateTodo or DeleteTodo that returns an error leaves
\* the collection and the next id as they were; a failed CreateTodo
\* consumes no id
C21_FailedCallChangesNothing ==
    [][(ret' # ret /\ ret'.op \in StoreOps /\ ret'.err # "ok")
         => (todos' = todos /\ nextID' = nextID /\ assigned' = assigned)]_vars

\* a CreateTodo failed on the PRIMARY KEY of a row that is stored, and the
\* next id is the one after that row
C21_Witness ==
    /\ ret.op = "CreateTodo" /\ ret.err = "storage"
    /\ ret.id \in IDs(todos)
    /\ nextID = ret.id + 1

----------------------------------------------------------------------------
(* What CreateTodo takes from its caller *)

\* the id the allocator hands out next: nextID, or the successor of the
\* AUTOINCREMENT sequence
AllocatorNextID ==
    IF impl = "database"
    THEN (IF MaxID(todos) > autoinc THEN MaxID(todos) ELSE autoinc) + 1
    ELSE nextID

\* C22: CreateTodo ignores the id, createdDate and lastUpdated of the record
\* it is given: the stored record has the allocator's next id and both
\* timestamps lie within the time of the call
C22_CreateIgnoresCallerFields ==
    [][(assigned' # assigned /\ ret'.op = "CreateTodo")
         => /\ ret'.id = AllocatorNextID
            /\ \E j \in DOMAIN todos' : todos'[j].id = ret'.id
            /\ \A j \in DOMAIN todos' : todos'[j].id = ret'.id =>
                  /\ todos'[j].createdDate \in clock..clock'
                  /\ todos'[j].lastUpdated \in clock..clock']_vars

----------------------------------------------------------------------------
(* User profile *)

\* C23: GetUserProfile returns a not-found error while no profile has been
\* set, on a fresh store and after an import whose data carries no profile,
\* and returns the imported profile otherwise
C23_ProfileNotFoundUntilSet ==
    ret.op = "GetUserProfile" =>
        IF userProfile.name = ""
        THEN ret.err = "notfound"
        ELSE ret.err = "ok" /\ ret.profile = userProfile

----------------------------------------------------------------------------
(* Validation of the create and update requests *)

CreateRequestOps == {"createTodo", "create_todo"}

\* C24: a creation request without a title, or with an empty one, persists
\* nothing: no POST /api/todos and no create_todo call stores a todo whose
\* title is empty
C24_TitleRequired ==
    [][(ret'.op \in CreateRequestOps /\ assigned' # assigned)
         => \A j \in DOMAIN todos' :
               todos'[j].id = ret'.id => todos'[j].title # ""]_vars

\* the due_date argument is there and is not an RFC 3339 timestamp
BadDueDate(args) ==
    /\ HasArg(args, "due_date")
    /\ args["due_date"] # ""
    /\ ~ParseRFC3339(args["due_date"]).ok

\* C25: a create_todo or update_todo call whose due_date is not a valid
\* timestamp is rejected with an error and changes nothing in the store
C25_BadDueDateRejected ==
    [][(ret'.op \in {"create_todo", "update_todo"} /\ BadDueDate(ret'.req))
         => (ret'.err # "ok" /\ todos' = todos)]_vars

Priorities == {"urgent", "high", "medium", "low"}

\* C26: every stored todo has one of the four priorities, whatever create
\* and update requests were served
C26_PriorityInEnum ==
    \A i \in DOMAIN todos : todos[i].priority \in Priorities

\* the field of the record that an argument of update_todo sets
ArgField ==
    [title |-> "title", description |-> "description", priority |-> "priority",
     status |-> "status", category |-> "category", due_date |-> "dueDate",
     estimated_duration |-> "estimatedDuration"]

\* C28: a successful update_todo call changes only the fields for which it
\* carries an argument; every other field of the record keeps its value
C28_UpdateToolPatches ==
    [][(ret'.op = "update_todo" /\ ret'.err = "ok")
         => \A i \in DOMAIN todos, j \in DOMAIN todos' :
               (todos[i].id = ret'.id /\ todos'[j].id = ret'.id)
               => \A key \in DOMAIN ArgField \ DOMAIN ret'.req :
                     todos'[j][ArgField[key]] = todos[i][ArgField[key]]]_vars

----------------------------------------------------------------------------
(* Mutual exclusion and concurrent calls *)

\* the caller is inside a method that writes the store
WriterInside(p) == pc[p] \in {"locked", "insert", "incLoad", "incStore", "update"}

\* the caller is inside a method that reads the store
ReaderInside(p) == pc[p] = "rlocked"

\* C27: no writer is inside the store together with another writer or with
\* a reader
C27_WritersExclusive ==
    \A p, q \in Procs :
       (p # q /\ WriterInside(p)) => ~(WriterInside(q) \/ ReaderInside(q))

\* C29: when two update_todo calls on one id return success one after the
\* other, the stored record carries the values of both: the fields the
\* second call set, and the fields that only the first call set
C29_BothUpdatesTakeEffect ==
    [][(/\ ret.op = "update_todo" /\ ret.err = "ok"
        /\ ret'.op = "update_todo" /\ ret'.err = "ok"
        /\ ret'.id = ret.id
        /\ \E p \in Procs : pc[p] = "merged" /\ pc'[p] = "idle")
         => \A j \in DOMAIN todos' :
               todos'[j].id = ret'.id
               => /\ \A key \in DOMAIN ret'.req :
                        todos'[j][ArgField[key]] = ret'.req[key]
                  /\ \A key \in DOMAIN ret.req \ DOMAIN ret'.req :
                        todos'[j][ArgField[key]] = ret.req[key]]_vars

\* C30: no CreateTodo call fails while the storage works, whatever other
\* CreateTodo calls run beside it
C30_ConcurrentCreateSucceeds ==
    ~(ret.op = "CreateTodo" /\ ret.err # "ok")

\* C31: of two delete requests for one stored id that run at the same
\* time, the one that reaches the store first reports success and the other
\* reports that the todo was not found
C31_OneDeleteSucceeds ==
    [][\A q \in Procs :
         (pc[q] = "deleting" /\ pc'[q] = "idle")
         => /\ loc[q].todo.id \in IDs(todos) => ret'.err = "ok"
            /\ (/\ ret.op = "DeleteTodo" /\ ret.err = "ok"
                /\ ret.id = loc[q].todo.id /\ ret.id \in deleted)
                 => ret'.err = "notfound"]_vars

----------------------------------------------------------------------------
(* Import *)

\* C32: an ImportFromJSON that returns an error leaves the todos, the
\* profile and the next id exactly as they were before the call
C32_ImportAllOrNothing ==
    [][(ret'.op = "ImportFromJSON" /\ ret'.err # "ok")
         => (todos' = todos /\ userProfile' = userProfile /\ nextID' = nextID
             /\ autoinc' = autoinc)]_vars

\* C33: whenever no call is in progress, the next id of SimpleDatabase and
\* of SQLiteDatabase is at least 1 and greater than the id of every stored
\* item
C33_NextIDAboveStored ==
    (Idle /\ Wired)
      => (nextID >= 1 /\ \A i \in DOMAIN todos : todos[i].id < nextID)

----------------------------------------------------------------------------
(* What a write leaves alone *)

\* the items with another id, in stored order
Others(ts, id) == SelectSeq(ts, LAMBDA t : t.id # id)

\* C34: a successful UpdateTodo or DeleteTodo leaves the items with another
\* id as they are, fields and relative order, a successful CreateTodo leaves
\* the items that were stored as they are, and none of them changes the
\* user profile
C34_WritesLeaveOthers ==
    [][(ret'.op \in {"CreateTodo", "UpdateTodo", "DeleteTodo"} /\ ret'.err = "ok" /\ Wired)
         => /\ userProfile' = userProfile
            /\ Others(todos', ret'.id) = (IF ret'.op = "CreateTodo" THEN todos
                                           ELSE Others(todos, ret'.id))]_vars

\* a DeleteTodo has removed an item that was stored between two others
C34_Witness ==
    /\ ret.op = "DeleteTodo" /\ ret.err = "ok" /\ ret.id \in deleted
    /\ Wired /\ userProfile.set
    /\ \E i, j \in DOMAIN todos : todos[i].id < ret.id /\ ret.id < todos[j].id

----------------------------------------------------------------------------
(* The two orderings of the listing *)

\* rows with equal sort keys come in insertion order, which is the order of
\* their ids
InsertionOrderOnTies(list) ==
    \A i, j \in DOMAIN list :
       (i < j /\ ~SqlAfter(list[j], list[i])) => list[i].id < list[j].id

\* C35: the listing that Database.GetAllTodos returns in SQL order, with the
\* rows that ORDER BY leaves tied in insertion order, is the
\* sequence that the sort of SimpleDatabase.GetAllTodos makes of the same
\* items in the same insertion order
C35_SqlOrderIsComparatorSort ==
    [][(ret'.op = "Database.GetAllTodos" /\ InsertionOrderOnTies(ret'.list))
         => ret'.list = SimpleDatabase_GetAllTodos(todos)]_vars

----------------------------------------------------------------------------
(* The optimized schedule *)

\* the stored items that the schedule is made of
Qualifying == {todos[i] : i \in {k \in DOMAIN todos : IsPriorityTask(todos[k])}}

\* C36: optimized_tasks holds only stored items that are pending or in
\* progress and urgent or high, each once, every urgent item before every
\* high item, at most 10 of them, and when more qualify none that is left
\* out goes before one that is listed
C36_OptimizedTasks ==
    (ret.op = "aiOptimizeSchedule")
      => LET l == ret.list IN
         /\ \A k \in DOMAIN l : l[k] \in Qualifying
         /\ \A i, j \in DOMAIN l : i # j => l[i].id # l[j].id
         /\ Len(l) = (IF Cardinality(Qualifying) > 10 THEN 10 ELSE Cardinality(Qualifying))
         /\ \A i, j \in DOMAIN l : i < j => ~(l[i].priority = "high" /\ l[j].priority = "urgent")
         /\ \A t \in Qualifying :
               (t.priority = "urgent" /\ \A k \in DOMAIN l : l[k].id # t.id)
               => \A k \in DOMAIN l : l[k].priority = "urgent"

\* more than 10 items qualify, of both priorities, and the schedule was cut
C36_Witness ==
    /\ ret.op = "aiOptimizeSchedule"
    /\ Cardinality(Qualifying) > 10
    /\ Len(ret.list) = 10
    /\ \E i, j \in DOMAIN ret.list :
          ret.list[i].priority = "urgent" /\ ret.list[j].priority = "high"
    /\ todos[1].priority = "high"

----------------------------------------------------------------------------
(* Listing with filters *)

\* the stored items that pass every filter of the request that is not empty
Matching(args) == {todos[i] : i \in {k \in DOMAIN todos : Include(todos[k], args)}}

\* C37: list_todos reports exactly the todos that match every filter that
\* was supplied and is not empty, all of them when none was: as many as
\* match, and those and no others where it returns the items; the store is
\* unchanged
C37_ListFilters ==
    [][ret'.op = "list_todos"
         => /\ ret'.id = Cardinality(Matching(ret'.req))
            /\ ret'.list # <<>> =>
                  {ret'.list[k] : k \in DOMAIN ret'.list} = Matching(ret'.req)
            /\ todos' = todos]_vars

----------------------------------------------------------------------------
(* MCPClient.connect *)

\* C38: the promise of connect() does not stay pending: it is resolved once
\* initialize and tools/list have succeeded, and only then, and it is
\* rejected once one of the two requests has failed or timed out
C38_ConnectSettles ==
    /\ client.onopen = "done" => client.promise # "pending"
    /\ client.promise = "resolved" => client.onopen = "done"
    /\ client.onopen = "threw" => client.promise = "rejected"

====
